---- MODULE Spec2Model ----
(***************************************************************************)
(* A model of bystander's Observable (src/src/bystander.ts): the           *)
(* subscription protocol, the operators filter, map, reduce and concat,    *)
(* the constructors of, from, fromEvent and fromPromise, and forEach.      *)
(*                                                                         *)
(* Observables live in a heap (nodes); an observer is a chain of frames,   *)
(* the frame nearest to the source first, ending in the user's observer.   *)
(* A synchronous push is evaluated as the code runs it: a call of a        *)
(* producer or of an observer's member is a call of producer or Emit, and  *)
(* the machine state (the closures' variables, the log of callbacks made)  *)
(* is threaded through the calls in program order.                         *)
(***************************************************************************)
EXTENDS Integers, Sequences, FiniteSets, TLC

\* ---------------------------------------------------------------- bounds
MaxLen == 2      \* the longest argument list / array
MaxNodes == 3    \* observables constructed in one run
MaxSubs == 2     \* subscribe calls made by the user in one run
MaxPromises == 1 \* promises the program holds
MaxFrom == 2     \* observables built by from in one run
MaxFires == 2    \* events dispatched on the targets in one run
MaxEventSources == 2 \* observables built by fromEvent in one run

\* ---------------------------------------------------------------- values
\* JavaScript values that flow through the streams.
Num(n) == [t |-> "number", n |-> n]
Undefined == [t |-> "undefined", n |-> 0]
NaN == [t |-> "NaN", n |-> 0]
TypeError == [t |-> "TypeError", n |-> 0]
NoThrow == [t |-> "none", n |-> 0]
\* the Error a user's callback throws
Boom == [t |-> "Error", n |-> 2]
\* the Event object dispatched for the event name
Event(name) == [t |-> "Event", n |-> IF name = "click" THEN 1 ELSE 2]

\* the numbers the sources push
Values == {Num(1), Num(2)}

SeqsUpTo(S, n) == UNION {[1..k -> S] : k \in 0..n}

\* The user's callbacks: predicates, transforms and combiners.
Predicates == {"gt1", "odd"}
Transforms == {"square", "inc"}
Combiners == {"add", "sub"}
\* a callback that throws whenever it is called
Throws(f) == f = "boom"

predicate(f, val) ==
  CASE f = "gt1" -> val.t = "number" /\ val.n > 1
    [] f = "odd" -> val.t = "number" /\ val.n % 2 = 1

transform(f, val) ==
  CASE f = "square" -> IF val.t = "number" THEN Num(val.n * val.n) ELSE NaN
    [] f = "inc" -> IF val.t = "number" THEN Num(val.n + 1) ELSE NaN

combiner(f, prev, curr) ==
  IF prev.t # "number" \/ curr.t # "number" THEN NaN
  ELSE CASE f = "add" -> Num(prev.n + curr.n)
         [] f = "sub" -> Num(prev.n - curr.n)

\* ---------------------------------------------------------------- events
\* A call of an observer's member: next(val), error(err) or complete().
EvNext(val) == [t |-> "next", v |-> val]
EvError(err) == [t |-> "error", v |-> err]
EvComplete == [t |-> "complete", v |-> Undefined]
\* beside them in a log: the user invoked the teardown subscribe returned
EvTeardown == [t |-> "teardown", v |-> Undefined]

Members == {"next", "error", "complete"}

\* ---------------------------------------------------------------- state
VARIABLES
  nodes,     \* the observables constructed so far, each with its closure
  acts,      \* the producer executions that keep state (concat, fromPromise)
  subs,      \* the user's subscribe calls: node, observer, teardown returned
  log,       \* per subscribe call, the user callbacks invoked, in order
  promises,  \* the promises the program holds: pending, fulfilled, rejected
  target,    \* the ECMAScript target the library was compiled for
  fired,     \* the events dispatched on the targets so far, in order
  lastThrow  \* what the last from call and the last concat call that threw
             \* have thrown (NoThrow: none has)

vars == <<nodes, acts, subs, log, promises, target, fired, lastThrow>>

\* ---------------------------------------------------------------- records
\* What the program passes to from and concat: a value that may have a
\* subscribe method (then it is the observable subscribe, 0: none), an
\* o[Symbol.iterator] member, and may be an array (elems: its elements).
JsValue(sub, iter, arr, elems) ==
  [subscribe |-> sub, iterator |-> iter, array |-> arr, elems |-> elems]

ObservableValue(n) == JsValue(n, FALSE, FALSE, <<>>)
ArrayValue(elems) == JsValue(0, TRUE, TRUE, elems)
\* an array where arrays have no Symbol.iterator member
LegacyArrayValue(elems) == JsValue(0, FALSE, TRUE, elems)
\* an iterable that is no array (a Set)
IterableValue(elems) == JsValue(0, TRUE, FALSE, elems)
\* neither observable-like, iterable nor an array (function() {})
PlainValue == JsValue(0, FALSE, FALSE, <<>>)

\* An Observable: the producer it wraps (kind) and what the producer closes
\* over. accu and isFirstVal are reduce's variables, totalObs and totalDone
\* are concat's: the code declares them in the operator's body, outside the
\* producer, so they belong to the observable, not to one subscription.
\* args are of's arguments, src the observable an operator was called on,
\* o the value passed to from, p the promise passed to fromPromise, elem,
\* eventName and options the arguments of fromEvent.
NoOptions == [given |-> FALSE, capture |-> FALSE]
Options(capture) == [given |-> TRUE, capture |-> capture]

BlankNode ==
  [kind |-> "", args |-> <<>>, src |-> 0, f |-> "", initVal |-> Undefined,
   accu |-> Undefined, isFirstVal |-> TRUE, totalObs |-> <<>>, totalDone |-> 0,
   o |-> PlainValue, p |-> 0, elem |-> "", eventName |-> "",
   options |-> NoOptions]

\* A teardown: the function a producer returns.
noop == [k |-> "noop", act |-> 0]
Teardown(k, a) == [k |-> k, act |-> a]

\* An entry of a target's event listener list, for the handler of one
\* producer execution: the event name and the capture flag it was added
\* with, and whether it is in the list still.
NoListener == [on |-> FALSE, name |-> "", capture |-> FALSE]

\* One execution of a producer that keeps variables of its own: concat's
\* sub, fromPromise's unSubscribed, fromEvent's handler. stage follows the
\* promise chain p.then(..).catch(..) of fromPromise; listener is the entry
\* of handler in elem's listener list; hist and owner are history only.
BlankAct ==
  [kind |-> "", node |-> 0, obs |-> <<>>, sub |-> noop, unSubscribed |-> FALSE,
   p |-> 0, stage |-> "", reason |-> Undefined, hist |-> <<>>, owner |-> 0,
   elem |-> "", eventName |-> "", listener |-> NoListener]

\* One frame of an observer chain. A user's frame stands for the callbacks
\* of the subscribe call sub; does is what the next callback does besides
\* being called: nothing (""), throw ("throw"), or invoke the teardown its
\* subscribe call returned ("unsubscribe").
BlankFrame ==
  [k |-> "", f |-> "", node |-> 0, act |-> 0, has |-> {}, sub |-> 0, does |-> ""]
UserFrame(s) == [BlankFrame EXCEPT !.k = "user", !.sub = s]
UserFrameDoing(s, does) == [UserFrame(s) EXCEPT !.does = does]
NormFrame(has) == [BlankFrame EXCEPT !.k = "subscribe", !.has = has]
FilterFrame(f) == [BlankFrame EXCEPT !.k = "filter", !.f = f]
MapFrame(f) == [BlankFrame EXCEPT !.k = "map", !.f = f]
ReduceFrame(n) == [BlankFrame EXCEPT !.k = "reduce", !.node = n]
ConcatFrame(n, a) == [BlankFrame EXCEPT !.k = "concat", !.node = n, !.act = a]

\* The first argument of subscribe, with the error and complete callbacks
\* passed beside it: has holds the members (callbacks) that exist.
Observer(type, has) == [type |-> type, has |-> has, does |-> ""]
ObserverDoing(type, has, does) == [type |-> type, has |-> has, does |-> does]

\* The owner of a chain: the user's subscribe call at its end.
Owner(obs) == obs[Len(obs)].sub

\* ---------------------------------------------------------------- evaluator
\* The machine state a synchronous call chain reads and writes:
\*   nodes, acts, log  as the variables of the same names
\*   thrown            the exception in flight (NoThrow: none)
\*   ret               the value the last producer returned
Machine(ns, as, lg) ==
  [nodes |-> ns, acts |-> as, log |-> lg, thrown |-> NoThrow, ret |-> noop]

Throwing(m) == m.thrown # NoThrow

\* elem.addEventListener(eventName, handler, options) and
\* elem.addEventListener(eventName, handler), for the handler of the
\* producer execution a: the listener is appended to elem's list with the
\* capture flag of options (false when there are none).
addEventListener(as, a, eventName, options) ==
  [as EXCEPT ![a].listener =
     [on |-> TRUE, name |-> eventName,
      capture |-> options.given /\ options.capture]]

\* elem.removeEventListener(eventName, handler, options): the DOM removes
\* the listener with this event name, this callback and this capture flag,
\* and does nothing when the list holds none.
removeEventListener(as, a, eventName, options) ==
  IF /\ as[a].listener.on
     /\ as[a].listener.name = eventName
     /\ as[a].listener.capture = (options.given /\ options.capture)
  THEN [as EXCEPT ![a].listener.on = FALSE]
  ELSE as

\* fromPromise's teardown that leaves the flag alone
fromPromise_unsubscribe_noFlag(a, as) == as

\* fromPromise: createUnsub(function() { unSubscribed = true; })
fromPromise_unsubscribe(a, as) == [as EXCEPT ![a].unSubscribed = TRUE]

\* fromEvent: createUnsub(function() {
\*   elem.removeEventListener(eventName, handler); })
fromEvent_unsubscribe(a, as) ==
  removeEventListener(as, a, as[a].eventName, NoOptions)

\* Invoking a teardown. noop does nothing; concat's is () => { sub(); },
\* with sub read when it is invoked.
RECURSIVE call(_, _)
call(td, as) ==
  CASE td.k = "noop" -> as
    [] td.k = "fromPromise" -> fromPromise_unsubscribe(td.act, as)
    [] td.k = "fromEvent" -> fromEvent_unsubscribe(td.act, as)
    [] td.k = "concat" -> call(as[td.act].sub, as)

RECURSIVE Emit(_, _, _), EmitEach(_, _, _, _), producer(_, _, _),
          subscribe(_, _, _, _)

\* for (let i = 0; i < args.length; i++) { obs.next(args[i]); }
EmitEach(args, i, obs, m) ==
  IF i > Len(args) \/ Throwing(m) THEN m
  ELSE EmitEach(args, i + 1, obs, Emit(EvNext(args[i]), obs, m))

\* filter with the test inverted
filter_next_inverted(f, val, obs, m) ==
  IF ~predicate(f, val) THEN Emit(EvNext(val), obs, m) ELSE m

\* filter: const next = (val) => { if (f(val)) { obs.next(val); } }
filter_next(f, val, obs, m) ==
  IF Throws(f) THEN [m EXCEPT !.thrown = Boom]
  ELSE IF predicate(f, val) THEN Emit(EvNext(val), obs, m) ELSE m

\* map that forwards the value untransformed
map_next_identity(f, val, obs, m) == Emit(EvNext(val), obs, m)

\* map: next: (val) => obs.next(f(val))
map_next(f, val, obs, m) ==
  IF Throws(f) THEN [m EXCEPT !.thrown = Boom]
  ELSE Emit(EvNext(transform(f, val)), obs, m)

\* reduce: const next = (val) => { ... }, over the accu and isFirstVal of
\* the reduce call n.
reduce_next(n, val, m) ==
  LET nd == m.nodes[n] IN
  IF ~nd.isFirstVal \/ (nd.isFirstVal /\ nd.initVal # Undefined)
  THEN IF Throws(nd.f) THEN [m EXCEPT !.thrown = Boom]
       ELSE [m EXCEPT !.nodes[n].accu = combiner(nd.f, nd.accu, val)]
  ELSE [m EXCEPT !.nodes[n].accu = val, !.nodes[n].isFirstVal = FALSE]

\* reduce: complete: () => { obs.next(accu); obs.complete(); }
reduce_complete(n, obs, m) ==
  Emit(EvComplete, obs, Emit(EvNext(m.nodes[n].accu), obs, m))

\* concat: complete () { totalDone++; if (totalDone < length) { sub =
\* totalObs[totalDone].subscribe(this); return; } obs.complete(); }
\* self is the observer the handler is a member of (this), self's tail the
\* obs it forwards to. totalObs is indexed from 1 here, from 0 in the code.
concat_complete(n, a, self, m) ==
  LET m1 == [m EXCEPT !.nodes[n].totalDone = @ + 1,
                      !.acts[a].hist = Append(@, [e |-> "complete", i |-> 0])]
      totalDone == m1.nodes[n].totalDone
      length == Len(m1.nodes[n].totalObs)
      m2 == [m1 EXCEPT !.acts[a].hist =
                         Append(@, [e |-> "subscribe", i |-> totalDone + 1])]
      m3 == subscribe(m2.nodes[n].totalObs[totalDone + 1],
                      Observer("object", Members), self, m2)
  IN IF totalDone < length
     THEN IF Throwing(m3) THEN m3 ELSE [m3 EXCEPT !.acts[a].sub = m3.ret]
     ELSE Emit(EvComplete, Tail(self), m1)

\* A callback of the user's: it is called with ev, and its next callback
\* may then throw, or invoke the teardown handle of its subscription (which
\* it holds once subscribe has returned it).
user_callback(fr, ev, m) ==
  LET m1 == [m EXCEPT !.log[fr.sub] = Append(@, ev)] IN
  IF ev.t # "next" THEN m1
  ELSE IF fr.does = "throw" THEN [m1 EXCEPT !.thrown = Boom]
  ELSE IF fr.does = "unsubscribe" /\ fr.sub \in DOMAIN subs
  THEN [m1 EXCEPT !.acts = call(subs[fr.sub].ret, m1.acts),
                  !.log[fr.sub] = Append(@, EvTeardown)]
  ELSE m1

\* A call of a member of the observer obs (obs.next(v), obs.error(e),
\* obs.complete()): the first frame's handler runs, and calls the rest.
Emit(ev, obs, m) ==
  IF Throwing(m) THEN m
  ELSE LET fr == Head(obs)
           rest == Tail(obs)
       IN CASE fr.k = "user" -> user_callback(fr, ev, m)
            [] fr.k = "subscribe" ->
                 IF ev.t \in fr.has THEN Emit(ev, rest, m) ELSE m
            [] fr.k = "filter" ->
                 IF ev.t = "next" THEN filter_next(fr.f, ev.v, rest, m)
                 ELSE Emit(ev, rest, m)
            [] fr.k = "map" ->
                 IF ev.t = "next" THEN map_next(fr.f, ev.v, rest, m)
                 ELSE Emit(ev, rest, m)
            [] fr.k = "reduce" ->
                 IF ev.t = "next" THEN reduce_next(fr.node, ev.v, m)
                 ELSE IF ev.t = "complete"
                 THEN reduce_complete(fr.node, rest, m)
                 ELSE Emit(ev, rest, m)
            [] fr.k = "concat" ->
                 IF ev.t = "complete"
                 THEN concat_complete(fr.node, fr.act, obs, m)
                 ELSE Emit(ev, rest, m)

\* of with the loop started one element late
of_subscribe_skipFirst(args, obs, m) ==
  [Emit(EvComplete, obs, EmitEach(args, 2, obs, m)) EXCEPT !.ret = noop]

\* of: the producer. for (..) { obs.next(args[i]); } obs.complete();
\* return noop;
of_subscribe(args, obs, m) ==
  [Emit(EvComplete, obs, EmitEach(args, 1, obs, m)) EXCEPT !.ret = noop]

\* filter: the producer subscribes the source with the derived observer.
filter_subscribe(n, obs, m) ==
  producer(m.nodes[n].src, <<FilterFrame(m.nodes[n].f)>> \o obs, m)

\* map: the producer.
map_subscribe(n, obs, m) ==
  producer(m.nodes[n].src, <<MapFrame(m.nodes[n].f)>> \o obs, m)

\* reduce: the producer.
reduce_subscribe(n, obs, m) ==
  producer(m.nodes[n].src, <<ReduceFrame(n)>> \o obs, m)

\* concat: the producer. let sub = noop; let observer = {..};
\* sub = totalObs[0].subscribe(observer); return () => { sub(); };
concat_subscribe(n, obs, m) ==
  LET a == Len(m.acts) + 1
      m1 == [m EXCEPT !.acts = Append(@,
               [BlankAct EXCEPT !.kind = "concat", !.node = n, !.obs = obs,
                                !.owner = Owner(obs),
                                !.hist = <<[e |-> "subscribe", i |-> 1]>>])]
      m2 == subscribe(m1.nodes[n].totalObs[1], Observer("object", Members),
                      <<ConcatFrame(n, a)>> \o obs, m1)
  IN IF Throwing(m2) THEN m2
     ELSE [m2 EXCEPT !.acts[a].sub = m2.ret, !.ret = Teardown("concat", a)]

\* from that hands the source an observer without complete
from_subscribe_noComplete(n, obs, m) ==
  subscribe(m.nodes[n].o.subscribe, Observer("object", {"next", "error"}), obs, m)

\* from, the source has subscribe: return o.subscribe(obs);
from_subscribe(n, obs, m) ==
  subscribe(m.nodes[n].o.subscribe, Observer("object", Members), obs, m)

\* from, the source has o[Symbol.iterator]:
\*   for (let val of o[Symbol.iterator]) { obs.next(val); } obs.complete();
\* The loop runs over the iterator METHOD, a function, not over o. Compiled
\* for ES2015 or later, for..of asks the function for its own iterator,
\* finds none and throws a TypeError. Compiled for ES5 (no downlevel
\* iteration), for..of is a loop over the indices below the function's
\* length, which is 0 for an iterator method: nothing is pushed.
fromIterable_subscribe(o, obs, m) ==
  IF target = "ES2015" THEN [m EXCEPT !.thrown = TypeError]
  ELSE [Emit(EvComplete, obs, m) EXCEPT !.ret = noop]

\* from, the source is an array: for (i..) { obs.next(arr[i]); }
\* obs.complete(); return noop;
fromArray_subscribe(o, obs, m) ==
  [Emit(EvComplete, obs, EmitEach(o.elems, 1, obs, m)) EXCEPT !.ret = noop]

\* fromPromise: the producer. let unSubscribed = false;
\* p.then(..).catch(..); return createUnsub(() => { unSubscribed = true; });
fromPromise_subscribe(n, obs, m) ==
  LET a == Len(m.acts) + 1 IN
  [m EXCEPT !.acts = Append(@,
              [BlankAct EXCEPT !.kind = "fromPromise", !.node = n, !.obs = obs,
                               !.owner = Owner(obs), !.p = m.nodes[n].p,
                               !.stage = "then"]),
            !.ret = Teardown("fromPromise", a)]

\* fromEvent: the producer. const handler = function(e) { obs.next(e); };
\* if (options) { elem.addEventListener(eventName, handler, options); }
\* else { elem.addEventListener(eventName, handler); }
\* return createUnsub(..);
fromEvent_subscribe(n, obs, m) ==
  LET a == Len(m.acts) + 1
      nd == m.nodes[n]
      as == Append(m.acts,
              [BlankAct EXCEPT !.kind = "fromEvent", !.node = n, !.obs = obs,
                               !.owner = Owner(obs), !.elem = nd.elem,
                               !.eventName = nd.eventName])
  IN [m EXCEPT !.acts = addEventListener(as, a, nd.eventName,
                                         IF nd.options.given THEN nd.options
                                         ELSE NoOptions),
               !.ret = Teardown("fromEvent", a)]

\* this._subscribe(obs) of the observable n.
producer(n, obs, m) ==
  IF Throwing(m) THEN m
  ELSE LET kind == m.nodes[n].kind
       IN CASE kind = "of" -> of_subscribe(m.nodes[n].args, obs, m)
            [] kind = "filter" -> filter_subscribe(n, obs, m)
            [] kind = "map" -> map_subscribe(n, obs, m)
            [] kind = "reduce" -> reduce_subscribe(n, obs, m)
            [] kind = "concat" -> concat_subscribe(n, obs, m)
            [] kind = "from" -> from_subscribe(n, obs, m)
            [] kind = "fromIterable" ->
                 fromIterable_subscribe(m.nodes[n].o, obs, m)
            [] kind = "fromArray" -> fromArray_subscribe(m.nodes[n].o, obs, m)
            [] kind = "fromPromise" -> fromPromise_subscribe(n, obs, m)
            [] kind = "fromEvent" -> fromEvent_subscribe(n, obs, m)

\* subscribe(o, errorCallback, completeCallback) of the observable n. o.has
\* holds o's members when o is an object, and the callbacks passed beside o
\* when o is a function, null or undefined. obs is where the callbacks lead.
\* An o that is undefined is neither a function nor null, and reading
\* o.next of it throws a TypeError.
subscribe(n, o, obs, m) ==
  IF o.type = "function" \/ o.type = "null"
  THEN producer(n, <<NormFrame((IF o.type = "function" THEN {"next"} ELSE {})
                               \cup (o.has \ {"next"}))>> \o obs, m)
  ELSE IF o.type = "undefined" THEN [m EXCEPT !.thrown = TypeError]
  ELSE producer(n, <<NormFrame(o.has)>> \o obs, m)

\* ---------------------------------------------------------------- inputs
ArgLists == SeqsUpTo(Values, MaxLen)
Reasons == {[t |-> "Error", n |-> 1]}

\* ---------------------------------------------------------------- constructors
\* Observable.of(...args)
of(args) == [BlankNode EXCEPT !.kind = "of", !.args = args]

\* from that wraps whatever it is given and throws nothing
from_noValidation(o) ==
  [node |-> [BlankNode EXCEPT !.kind = IF o.subscribe # 0 THEN "from"
                                       ELSE IF o.iterator THEN "fromIterable"
                                       ELSE "fromArray",
                              !.o = o],
   threw |-> NoThrow]

\* Observable.from(o): the observable built, or the exception thrown.
from(o) ==
  IF o.subscribe # 0
  THEN [node |-> [BlankNode EXCEPT !.kind = "from", !.o = o],
        threw |-> NoThrow]
  ELSE IF o.iterator
  THEN [node |-> [BlankNode EXCEPT !.kind = "fromIterable", !.o = o],
        threw |-> NoThrow]
  ELSE IF o.array
  THEN [node |-> [BlankNode EXCEPT !.kind = "fromArray", !.o = o],
        threw |-> NoThrow]
  ELSE [node |-> BlankNode, threw |-> TypeError]

\* filter(f), map(f) of the observable n
filter(n, f) == [BlankNode EXCEPT !.kind = "filter", !.src = n, !.f = f]
map(n, f) == [BlankNode EXCEPT !.kind = "map", !.src = n, !.f = f]

\* reduce(f, initVal) of the observable n: let accu = initVal;
\* let isFirstVal = true;
reduce(n, f, initVal) ==
  [BlankNode EXCEPT !.kind = "reduce", !.src = n, !.f = f, !.initVal = initVal,
                    !.accu = initVal, !.isFirstVal = TRUE]

\* concat(...other) of the observable n: the observable built, or the
\* exception thrown. const totalObs = [this, ...other]; let totalDone = 0;
concat(n, other) ==
  IF ~(\A i \in 1..Len(other) : other[i].subscribe # 0)
  THEN [node |-> BlankNode, threw |-> TypeError]
  ELSE [node |-> [BlankNode EXCEPT
                    !.kind = "concat",
                    !.totalObs = <<n>> \o [i \in 1..Len(other) |-> other[i].subscribe],
                    !.totalDone = 0],
        threw |-> NoThrow]

\* Observable.fromPromise(p)
fromPromise(p) == [BlankNode EXCEPT !.kind = "fromPromise", !.p = p]

\* Observable.fromEvent(elem, eventName, options)
fromEvent(elem, eventName, options) ==
  [BlankNode EXCEPT !.kind = "fromEvent", !.elem = elem,
                    !.eventName = eventName, !.options = options]

\* ---------------------------------------------------------------- actions
Init ==
  /\ nodes = <<>>
  /\ acts = <<>>
  /\ subs = <<>>
  /\ log = <<>>
  /\ promises = [p \in 1..MaxPromises |-> [state |-> "pending", v |-> Undefined]]
  /\ target \in {"ES5", "ES2015"}
  /\ fired = <<>>
  /\ lastThrow = [op \in {"from", "concat"} |-> NoThrow]

\* A constructor that starts an execution of the producer it wraps
Construct_eager(nd) ==
  /\ nodes' = Append(nodes, nd)
  /\ acts' = IF nd.kind \in {"fromEvent", "fromPromise"}
             THEN Append(acts, [BlankAct EXCEPT !.kind = nd.kind,
                                                !.node = Len(nodes) + 1])
             ELSE acts
  /\ UNCHANGED <<subs, log, promises, target, fired, lastThrow>>

\* A constructor call returns the observable nd.
Construct(nd) ==
  /\ nodes' = Append(nodes, nd)
  /\ UNCHANGED <<acts, subs, log, promises, target, fired, lastThrow>>

\* A constructor call throws err.
Throw(op, err) ==
  /\ lastThrow' = [lastThrow EXCEPT ![op] = err]
  /\ UNCHANGED <<nodes, acts, subs, log, promises, target, fired>>

Of(args) ==
  /\ Len(nodes) < MaxNodes
  /\ Construct(of(args))

From(o) ==
  /\ Len(nodes) < MaxNodes
  /\ Len(SelectSeq(nodes, LAMBDA nd : nd.o # PlainValue)) < MaxFrom
  /\ IF from(o).threw = NoThrow THEN Construct(from(o).node)
     ELSE Throw("from", from(o).threw)

Filter(n, f) ==
  /\ Len(nodes) < MaxNodes
  /\ Construct(filter(n, f))

Map(n, f) ==
  /\ Len(nodes) < MaxNodes
  /\ Construct(map(n, f))

Reduce(n, f, initVal) ==
  /\ Len(nodes) < MaxNodes
  /\ Construct(reduce(n, f, initVal))

Concat(n, other) ==
  /\ Len(nodes) < MaxNodes
  /\ IF concat(n, other).threw = NoThrow THEN Construct(concat(n, other).node)
     ELSE Throw("concat", concat(n, other).threw)

FromPromise(p) ==
  /\ Len(nodes) < MaxNodes
  /\ Construct(fromPromise(p))

FromEvent(elem, eventName, options) ==
  /\ Len(nodes) < MaxNodes
  /\ Len(SelectSeq(nodes, LAMBDA nd : nd.kind = "fromEvent")) < MaxEventSources
  /\ Construct(fromEvent(elem, eventName, options))

\* The user calls subscribe(o, ..) on the observable n: the producer runs
\* to its end, pushing whatever it pushes synchronously, and the teardown
\* it returns (or the exception it throws) reaches the caller.
Subscribe(n, o) ==
  /\ Len(subs) < MaxSubs
  /\ LET s == Len(subs) + 1
         m == subscribe(n, o, <<UserFrameDoing(s, o.does)>>,
                        Machine(nodes, acts, Append(log, <<>>)))
     IN /\ nodes' = m.nodes
        /\ acts' = m.acts
        /\ log' = m.log
        /\ subs' = Append(subs, [node |-> n, o |-> o,
                                 ret |-> IF Throwing(m) THEN noop ELSE m.ret,
                                 threw |-> m.thrown, torn |-> FALSE])
  /\ UNCHANGED <<promises, target, fired, lastThrow>>

\* What new Promise(executor) makes of the executor's run: an exception the
\* executor throws is caught, and reject is called with it.
executor(s, m) ==
  IF Throwing(m)
  THEN [m EXCEPT !.log[s] = Append(@, EvError(m.thrown)), !.thrown = NoThrow]
  ELSE m

\* forEach with an observer that has no next
forEach_observer_withoutNext(s, does) ==
  <<NormFrame({"complete", "error"}), UserFrameDoing(s, does)>>

\* forEach: the observer { next: (item) => f(item), complete: resolve,
\* error: reject } of the call s.
forEach_observer(s, does) == <<UserFrameDoing(s, does)>>

\* The state of the promise forEach returned, after the calls of resolve
\* (complete) and reject (error) made so far: the first call settles it.
PromiseState(calls) ==
  LET settling == SelectSeq(calls, LAMBDA c : c.t \in {"complete", "error"})
  IN IF settling = <<>> THEN "pending"
     ELSE IF settling[1].t = "complete" THEN "fulfilled"
     ELSE "rejected"

\* The user calls forEach(f) on the observable n: new Promise((resolve,
\* reject) => { this._subscribe({ next: (item) => f(item),
\* complete: resolve, error: reject }); }). The log of the call holds the
\* calls of f (next), of resolve (complete) and of reject (error); the
\* teardown the producer returns is dropped.
ForEach(n, does) ==
  /\ Len(subs) < MaxSubs
  /\ LET s == Len(subs) + 1
         m == executor(s, producer(n, forEach_observer(s, does),
                                   Machine(nodes, acts, Append(log, <<>>))))
     IN /\ nodes' = m.nodes
        /\ acts' = m.acts
        /\ log' = m.log
        /\ subs' = Append(subs, [node |-> n,
                                 o |-> ObserverDoing("forEach", Members, does),
                                 ret |-> noop, threw |-> NoThrow,
                                 torn |-> FALSE])
  /\ UNCHANGED <<promises, target, fired, lastThrow>>

\* The user invokes the teardown subscribe returned.
Unsubscribe(s) ==
  /\ subs[s].threw = NoThrow
  /\ subs[s].o.type # "forEach"
  /\ ~subs[s].torn
  /\ acts' = call(subs[s].ret, acts)
  /\ subs' = [subs EXCEPT ![s].torn = TRUE]
  /\ log' = [log EXCEPT ![s] = Append(@, EvTeardown)]
  /\ UNCHANGED <<nodes, promises, target, fired, lastThrow>>

\* elem.dispatchEvent(new Event(eventName)): the listeners in elem's list
\* for the event name are called in the order they were added, each if it
\* is in the list still when its turn comes. An exception a listener
\* throws is reported to the environment, and the dispatch goes on.
RECURSIVE dispatchEvent(_, _, _, _)
dispatchEvent(elem, eventName, a, m) ==
  IF a > Len(m.acts) THEN m
  ELSE LET act == m.acts[a]
           m1 == IF /\ act.kind = "fromEvent" /\ act.elem = elem
                    /\ act.listener.on /\ act.listener.name = eventName
                 THEN [Emit(EvNext(Event(eventName)), act.obs, m)
                         EXCEPT !.thrown = NoThrow]
                 ELSE m
       IN dispatchEvent(elem, eventName, a + 1, m1)

\* The event eventName fires on elem.
Fire(elem, eventName) ==
  /\ Len(fired) < MaxFires
  /\ fired' = Append(fired, [elem |-> elem, name |-> eventName])
  /\ LET m == dispatchEvent(elem, eventName, 1, Machine(nodes, acts, log))
     IN /\ nodes' = m.nodes
        /\ acts' = m.acts
        /\ log' = m.log
  /\ UNCHANGED <<subs, promises, target, lastThrow>>

\* The promise p is fulfilled with d, or rejected with e.
Resolve(p, d) ==
  /\ promises[p].state = "pending"
  /\ promises' = [promises EXCEPT ![p] = [state |-> "fulfilled", v |-> d]]
  /\ UNCHANGED <<nodes, acts, subs, log, target, fired, lastThrow>>

Reject(p, e) ==
  /\ promises[p].state = "pending"
  /\ promises' = [promises EXCEPT ![p] = [state |-> "rejected", v |-> e]]
  /\ UNCHANGED <<nodes, acts, subs, log, target, fired, lastThrow>>

\* fromPromise: the handler passed to then runs for the producer execution
\* a, once p is settled: function(d) { if (unSubscribed) { return; }
\* obs.next(d); obs.complete(); }. A rejection of p skips it, and an
\* exception it throws rejects the promise then returned: both go to catch.
Then(a) ==
  /\ acts[a].kind = "fromPromise"
  /\ acts[a].stage = "then"
  /\ promises[acts[a].p].state # "pending"
  /\ LET obs == acts[a].obs
         d == promises[acts[a].p].v
         m0 == Machine(nodes, acts, log)
         m == IF promises[acts[a].p].state = "rejected" \/ acts[a].unSubscribed
              THEN m0
              ELSE Emit(EvComplete, obs, Emit(EvNext(d), obs, m0))
     IN /\ nodes' = m.nodes
        /\ log' = m.log
        /\ acts' = IF promises[acts[a].p].state = "rejected"
                   THEN [m.acts EXCEPT ![a].stage = "catch", ![a].reason = d]
                   ELSE IF Throwing(m)
                   THEN [m.acts EXCEPT ![a].stage = "catch",
                                       ![a].reason = m.thrown]
                   ELSE [m.acts EXCEPT ![a].stage = "done"]
  /\ UNCHANGED <<subs, promises, target, fired, lastThrow>>

\* fromPromise: the handler passed to catch runs:
\* function(e) { if (unSubscribed) { return; } obs.error(e); }
Catch(a) ==
  /\ acts[a].kind = "fromPromise"
  /\ acts[a].stage = "catch"
  /\ LET m0 == Machine(nodes, acts, log)
         m == IF acts[a].unSubscribed THEN m0
              ELSE Emit(EvError(acts[a].reason), acts[a].obs, m0)
     IN /\ nodes' = m.nodes
        /\ log' = m.log
        /\ acts' = [m.acts EXCEPT ![a].stage = "done"]
  /\ UNCHANGED <<subs, promises, target, fired, lastThrow>>

\* ---------------------------------------------------------------- programs
NodeIds == 1..Len(nodes)
SubIds == 1..Len(subs)

FullObserver == Observer("object", Members)
NextOnly == Observer("object", {"next"})

\* Programs that construct observables with of and subscribe to them.
NextOf ==
  \/ \E args \in ArgLists : Of(args)
  \/ \E n \in NodeIds, o \in {FullObserver, NextOnly} : Subscribe(n, o)

\* The library compiled for ES2015: what the target decides (from's loop
\* over an iterable) is left to SpecFrom.
InitES2015 == Init /\ target = "ES2015"

SpecOf == InitES2015 /\ [][NextOf]_vars

\* The observables a program can pass where an observable is expected.
Observables == {ObservableValue(n) : n \in NodeIds}
Others == UNION {[1..k -> Observables] : k \in 1..MaxLen}
Promises == 1..MaxPromises
ActIds == 1..Len(acts)

\* Programs that concatenate synchronous (of) and asynchronous
\* (fromPromise) sources, all of which complete.
NextConcat ==
  \/ \E args \in ArgLists : Of(args)
  \/ \E p \in Promises : FromPromise(p)
  \/ \E n \in NodeIds, other \in Others : Concat(n, other)
  \/ \E n \in NodeIds : Subscribe(n, FullObserver)
  \/ \E p \in Promises, d \in Values : Resolve(p, d)
  \/ \E a \in ActIds : Then(a)

SpecConcat == InitES2015 /\ [][NextConcat]_vars

\* Programs that reduce synchronous sources, with and without an initial
\* value.
NextReduce ==
  \/ \E args \in ArgLists : Of(args)
  \/ \E n \in NodeIds, f \in Combiners, initVal \in Values \cup {Undefined} :
       Reduce(n, f, initVal)
  \/ \E n \in NodeIds : Subscribe(n, FullObserver)

SpecReduce == InitES2015 /\ [][NextReduce]_vars

\* Programs that filter and map synchronous and asynchronous sources,
\* sources that end with an error included.
NextOps ==
  \/ \E args \in ArgLists : Of(args)
  \/ \E p \in Promises : FromPromise(p)
  \/ \E n \in NodeIds, f \in Predicates : Filter(n, f)
  \/ \E n \in NodeIds, f \in Transforms : Map(n, f)
  \/ \E n \in NodeIds : Subscribe(n, FullObserver)
  \/ \E p \in Promises, d \in Values : Resolve(p, d)
  \/ \E p \in Promises, e \in Reasons : Reject(p, e)
  \/ \E a \in ActIds : Then(a)
  \/ \E a \in ActIds : Catch(a)

SpecOps == InitES2015 /\ [][NextOps]_vars

\* Two ways to pass an observer to subscribe: an object with all members,
\* and a function with a complete callback beside it and no error callback.
ObserverShapes == {FullObserver, Observer("function", {"complete"})}

\* Programs that wrap observables with from and subscribe to both.
NextFrom ==
  \/ \E args \in ArgLists : Of(args)
  \/ \E p \in Promises : FromPromise(p)
  \/ \E o \in Observables : From(o)
  \/ \E n \in NodeIds, o \in ObserverShapes : Subscribe(n, o)
  \/ \E p \in Promises, d \in Values : Resolve(p, d)
  \/ \E p \in Promises, e \in Reasons : Reject(p, e)
  \/ \E a \in ActIds : Then(a)
  \/ \E a \in ActIds : Catch(a)

SpecFrom == InitES2015 /\ [][NextFrom]_vars

\* The event targets, event names and listener options of a program.
Elems == {"button", "window"}
EventNames == {"click", "keyup"}
OptionValues == {NoOptions, Options(FALSE), Options(TRUE)}

\* Programs that listen to events with fromEvent, and stop listening.
NextEvent ==
  \/ \E elem \in Elems, eventName \in EventNames, options \in OptionValues :
       FromEvent(elem, eventName, options)
  \/ \E n \in NodeIds : Subscribe(n, FullObserver)
  \/ \E s \in SubIds : Unsubscribe(s)
  \/ \E elem \in Elems, eventName \in EventNames : Fire(elem, eventName)

SpecEvent == InitES2015 /\ [][NextEvent]_vars

\* An observer whose next callback throws.
ThrowingObserver == ObserverDoing("object", Members, "throw")

\* Programs that subscribe to promises, with observers whose callbacks
\* return and observers whose next throws, and unsubscribe at any moment.
NextPromise ==
  \/ \E p \in Promises : FromPromise(p)
  \/ \E n \in NodeIds, o \in {FullObserver, ThrowingObserver} : Subscribe(n, o)
  \/ \E s \in SubIds : Unsubscribe(s)
  \/ \E p \in Promises, d \in Values : Resolve(p, d)
  \/ \E p \in Promises, e \in Reasons : Reject(p, e)
  \/ \E a \in ActIds : Then(a)
  \/ \E a \in ActIds : Catch(a)

SpecPromise == InitES2015 /\ [][NextPromise]_vars

\* Programs that iterate synchronous and asynchronous sources with
\* forEach, with callbacks that return and callbacks that throw.
NextForEach ==
  \/ \E args \in ArgLists : Of(args)
  \/ \E p \in Promises : FromPromise(p)
  \/ \E n \in NodeIds, f \in Transforms : Map(n, f)
  \/ \E n \in NodeIds, does \in {"", "throw"} : ForEach(n, does)
  \/ \E p \in Promises, d \in Values : Resolve(p, d)
  \/ \E p \in Promises, e \in Reasons : Reject(p, e)
  \/ \E a \in ActIds : Then(a)
  \/ \E a \in ActIds : Catch(a)

SpecForEach == InitES2015 /\ [][NextForEach]_vars

\* Every shape of subscribe's arguments: an object with any of the members;
\* a function, null or nothing (undefined) as the first argument, with or
\* without error and complete callbacks beside it.
AllShapes ==
  {Observer("object", has) : has \in SUBSET Members}
  \cup {Observer(type, has) : type \in {"function", "null", "undefined"},
                              has \in {{}, {"error", "complete"}}}

\* Programs that subscribe to a synchronous and an asynchronous source with
\* every shape of observer.
NextShapes ==
  \/ Of(<<Num(1)>>)
  \/ \E p \in Promises : FromPromise(p)
  \/ \E n \in NodeIds, o \in AllShapes : Subscribe(n, o)
  \/ \E p \in Promises, d \in Values : Resolve(p, d)
  \/ \E p \in Promises, e \in Reasons : Reject(p, e)
  \/ \E a \in ActIds : Then(a)
  \/ \E a \in ActIds : Catch(a)

SpecShapes == InitES2015 /\ [][NextShapes]_vars

\* Programs that build observables with every constructor and operator,
\* and subscribe to them with subscribe and forEach.
NextLazy ==
  \/ Of(<<Num(1), Num(2)>>)
  \/ \E o \in Observables \cup {LegacyArrayValue(<<Num(1)>>)} : From(o)
  \/ FromEvent("button", "click", NoOptions)
  \/ \E p \in Promises : FromPromise(p)
  \/ \E n \in NodeIds : Filter(n, "gt1")
  \/ \E n \in NodeIds : Map(n, "inc")
  \/ \E n \in NodeIds : Reduce(n, "add", Undefined)
  \/ \E n \in NodeIds, o \in Observables : Concat(n, <<o>>)
  \/ \E n \in NodeIds : Subscribe(n, FullObserver)
  \/ \E n \in NodeIds : ForEach(n, "")

SpecLazy == InitES2015 /\ [][NextLazy]_vars

\* Programs that concatenate synchronous and open-ended sources, and
\* unsubscribe while a source is active.
NextTeardown ==
  \/ Of(<<Num(1)>>)
  \/ \E p \in Promises : FromPromise(p)
  \/ FromEvent("button", "click", NoOptions)
  \/ \E n \in NodeIds, other \in Others : Concat(n, other)
  \/ \E n \in NodeIds : Subscribe(n, FullObserver)
  \/ \E s \in SubIds : Unsubscribe(s)
  \/ \E p \in Promises, d \in Values : Resolve(p, d)
  \/ \E a \in ActIds : Then(a)
  \/ Fire("button", "click")

SpecTeardown == InitES2015 /\ [][NextTeardown]_vars

\* Programs whose predicates, transforms and combiners may throw, over
\* synchronous sources, promises and events.
NextThrow ==
  \/ \E args \in {<<Num(1)>>, <<Num(1), Num(2)>>} : Of(args)
  \/ \E p \in Promises : FromPromise(p)
  \/ FromEvent("button", "click", NoOptions)
  \/ \E n \in NodeIds, f \in {"gt1", "boom"} : Filter(n, f)
  \/ \E n \in NodeIds, f \in {"inc", "boom"} : Map(n, f)
  \/ \E n \in NodeIds, f \in {"add", "boom"}, initVal \in {Undefined, Num(1)} :
       Reduce(n, f, initVal)
  \/ \E n \in NodeIds : Subscribe(n, FullObserver)
  \/ \E p \in Promises, d \in Values : Resolve(p, d)
  \/ \E a \in ActIds : Then(a)
  \/ \E a \in ActIds : Catch(a)
  \/ Fire("button", "click")

SpecThrow == InitES2015 /\ [][NextThrow]_vars

\* An observer whose next callback invokes the teardown of its own
\* subscription.
UnsubscribingObserver == ObserverDoing("object", Members, "unsubscribe")

\* Programs that subscribe to promises and events, directly and through
\* filter and map, and unsubscribe at any moment: between deliveries, and
\* from inside the next callback.
NextCancel ==
  \/ \E p \in Promises : FromPromise(p)
  \/ \E options \in {NoOptions, Options(FALSE)} :
       FromEvent("button", "click", options)
  \/ \E n \in NodeIds : Filter(n, "odd")
  \/ \E n \in NodeIds : Map(n, "inc")
  \/ \E n \in NodeIds, o \in {FullObserver, UnsubscribingObserver} :
       Subscribe(n, o)
  \/ \E s \in SubIds : Unsubscribe(s)
  \/ \E p \in Promises, d \in Values : Resolve(p, d)
  \/ \E p \in Promises, e \in Reasons : Reject(p, e)
  \/ \E a \in ActIds : Then(a)
  \/ \E a \in ActIds : Catch(a)
  \/ Fire("button", "click")

SpecCancel == InitES2015 /\ [][NextCancel]_vars

\* What a program can pass to from: observables, arrays (with and without
\* a Symbol.iterator member), other iterables, and a value that is none.
FromValues ==
  Observables
  \cup {ArrayValue(e) : e \in ArgLists}
  \cup {LegacyArrayValue(e) : e \in ArgLists}
  \cup {IterableValue(e) : e \in ArgLists}
  \cup {PlainValue}

\* Argument lists of concat with an argument that has no subscribe.
InvalidOthers ==
  {other \in UNION {[1..k -> Observables \cup {PlainValue}] : k \in 1..MaxLen} :
     \E i \in 1..Len(other) : other[i] = PlainValue}

\* Programs that convert values with from, and call concat with arguments
\* that are no observables, under either compilation target.
NextAdapt ==
  \/ \E o \in FromValues : From(o)
  \/ \E n \in NodeIds, other \in InvalidOthers : Concat(n, other)
  \/ \E n \in NodeIds : Subscribe(n, FullObserver)

SpecAdapt == Init /\ [][NextAdapt]_vars

\* ---------------------------------------------------------------- expectations
\* What a sequence of observer calls looks like through the observer o:
\* the calls of members o lacks reach no callback.
Has(o) ==
  IF o.type = "object" THEN o.has
  ELSE (IF o.type = "function" THEN {"next"} ELSE {}) \cup (o.has \ {"next"})

Visible(o, calls) == SelectSeq(calls, LAMBDA c : c.t \in Has(o))

Nexts(vals) == [i \in 1..Len(vals) |-> EvNext(vals[i])]

KindOf(s) == nodes[subs[s].node].kind

IsPrefix(a, b) == Len(a) <= Len(b) /\ a = SubSeq(b, 1, Len(a))

Count(calls, t) == Len(SelectSeq(calls, LAMBDA c : c.t = t))

\* The values an observable pushes to one subscriber, as the specification
\* defines its constructor or operator, with the promises as they are now
\* (a pending promise has pushed nothing yet).
RECURSIVE ValuesOf(_), ValuesOfAll(_, _)
ValuesOf(n) ==
  LET nd == nodes[n] IN
  CASE nd.kind = "of" -> nd.args
    [] nd.kind = "fromPromise" ->
         IF promises[nd.p].state = "fulfilled" THEN <<promises[nd.p].v>>
         ELSE <<>>
    [] nd.kind = "concat" -> ValuesOfAll(nd.totalObs, 1)

ValuesOfAll(ns, i) ==
  IF i > Len(ns) THEN <<>> ELSE ValuesOf(ns[i]) \o ValuesOfAll(ns, i + 1)

\* The calls an observable makes on one subscriber's observer, as the
\* specification defines its constructor or operator, with the promises as
\* they are now.
RECURSIVE CallsOf(_)
CallsOf(n) ==
  LET nd == nodes[n] IN
  CASE nd.kind = "of" -> Nexts(nd.args) \o <<EvComplete>>
    [] nd.kind = "fromPromise" ->
         IF promises[nd.p].state = "fulfilled"
         THEN <<EvNext(promises[nd.p].v), EvComplete>>
         ELSE IF promises[nd.p].state = "rejected"
         THEN <<EvError(promises[nd.p].v)>>
         ELSE <<>>
    [] nd.kind = "filter" ->
         SelectSeq(CallsOf(nd.src),
                   LAMBDA c : c.t = "next" => predicate(nd.f, c.v))
    [] nd.kind = "map" ->
         LET src == CallsOf(nd.src) IN
         [i \in 1..Len(src) |->
            IF src[i].t = "next" THEN EvNext(transform(nd.f, src[i].v))
            ELSE src[i]]
    [] nd.kind = "from" -> CallsOf(nd.o.subscribe)
    [] nd.kind \in {"fromArray", "fromIterable"} ->
         Nexts(nd.o.elems) \o <<EvComplete>>

\* Every promise the observable draws on is fulfilled.
RECURSIVE Settled(_)
Settled(n) ==
  LET nd == nodes[n] IN
  CASE nd.kind = "fromPromise" -> promises[nd.p].state = "fulfilled"
    [] nd.kind = "concat" -> \A i \in 1..Len(nd.totalObs) : Settled(nd.totalObs[i])
    [] OTHER -> TRUE

\* No promise handler of the subscription s is still to run.
Quiescent(s) ==
  \A a \in ActIds :
    acts[a].owner = s /\ acts[a].kind = "fromPromise" => acts[a].stage = "done"

\* The producer execution the subscribe call s started itself.
TopAct(s) == CHOOSE a \in ActIds :
               acts[a].owner = s /\ \A b \in ActIds : acts[b].owner = s => a <= b

\* ---------------------------------------------------------------- C1
\* C1: every subscription to Observable.of(v1..vn) has received exactly
\* next(v1), ..., next(vn) in argument order and then complete once, and no
\* error, by the time subscribe has returned, and nothing is added later;
\* subscribe returns the no-op teardown and throws nothing.
C1_OfPushesAllThenCompletes ==
  \A s \in SubIds :
    KindOf(s) = "of" =>
      /\ log[s] = Visible(subs[s].o,
                          Nexts(nodes[subs[s].node].args) \o <<EvComplete>>)
      /\ subs[s].threw = NoThrow
      /\ subs[s].ret = noop

\* C1's case: of(v1, v2) with v1 # v2 subscribed with a full observer, and
\* the empty of() subscribed too.
C1_Witness ==
  \E s, e \in SubIds :
    /\ KindOf(s) = "of" /\ KindOf(e) = "of"
    /\ subs[s].o = FullObserver /\ subs[e].o = FullObserver
    /\ nodes[subs[e].node].args = <<>>
    /\ log[e] = <<EvComplete>>
    /\ Len(nodes[subs[s].node].args) = 2
    /\ nodes[subs[s].node].args[1] # nodes[subs[s].node].args[2]
    /\ Len(log[s]) = 3

\* ---------------------------------------------------------------- C2
\* concat's history of one producer execution: source 1 subscribed, its
\* complete, source 2 subscribed, its complete, ...
InArgumentOrder(hist) ==
  \A i \in 1..Len(hist) :
    IF i % 2 = 1 THEN hist[i] = [e |-> "subscribe", i |-> (i + 1) \div 2]
    ELSE hist[i].e = "complete"

\* C2: a subscriber to a.concat(b1..bk), all sources completing, receives
\* the values of a, b1, ..., bk in that order (what it has received so far
\* is a prefix of them); the sources are subscribed in argument order, each
\* after the one before it completed; complete is delivered once, and only
\* after the last source completed.
C2_ConcatDrainsSourcesInOrder ==
  \A s \in SubIds :
    KindOf(s) = "concat" =>
      LET n == subs[s].node
          hist == acts[TopAct(s)].hist
      IN /\ IsPrefix(log[s], Nexts(ValuesOf(n)) \o <<EvComplete>>)
         /\ InArgumentOrder(hist)
         /\ Count(log[s], "complete") <= 1
         /\ Count(log[s], "complete") = 1 =>
              Len(SelectSeq(hist, LAMBDA h : h.e = "complete"))
                = Len(nodes[n].totalObs)

\* ---------------------------------------------------------------- C3
\* C3: every subscribe call on a concat-built observable, the second and
\* later ones included, delivers the whole concatenated sequence and then
\* complete once: once its sources have completed and its handlers have
\* run, the subscriber has received all of it.
C3_ConcatIsCold ==
  \A s \in SubIds :
    (KindOf(s) = "concat" /\ Settled(subs[s].node) /\ Quiescent(s)) =>
      log[s] = Nexts(ValuesOf(subs[s].node)) \o <<EvComplete>>

\* ---------------------------------------------------------------- C4
\* The left fold f(...f(f(a, v1), v2)..., vn) of vals[i..] from a.
RECURSIVE FoldLeft(_, _, _, _)
FoldLeft(f, a, vals, i) ==
  IF i > Len(vals) THEN a ELSE FoldLeft(f, combiner(f, a, vals[i]), vals, i + 1)

\* What the specification has reduce(f, initVal) deliver over of(vals):
\* with an initial value the fold from it, without one the fold of the rest
\* from v1.
Reduced(f, initVal, vals) ==
  IF initVal # Undefined THEN FoldLeft(f, initVal, vals, 1)
  ELSE FoldLeft(f, vals[1], vals, 2)

ReducesOf(n) == nodes[n].kind = "reduce" /\ nodes[nodes[n].src].kind = "of"

\* C4: subscribing to reduce(f) over of(v1..vn), n >= 1, or to
\* reduce(f, init) over of(v1..vn), delivers one next with the left fold and
\* then complete, and no per-item value.
C4_ReduceDeliversLeftFold ==
  \A s \in SubIds :
    LET nd == nodes[subs[s].node]
        vals == nodes[nd.src].args
    IN (ReducesOf(subs[s].node) /\ (Len(vals) >= 1 \/ nd.initVal # Undefined)) =>
         log[s] = <<EvNext(Reduced(nd.f, nd.initVal, vals)), EvComplete>>

\* ---------------------------------------------------------------- C5
\* C5: reduce's accumulator is per subscription: any two subscribe calls on
\* one reduce-built observable over a synchronous source deliver the same.
C5_ReduceStateIsPerSubscription ==
  \A s, t \in SubIds :
    (subs[s].node = subs[t].node /\ ReducesOf(subs[s].node)) => log[s] = log[t]

\* ---------------------------------------------------------------- C6
\* C6: a subscriber to filter(p) receives, once the source's handlers have
\* run, exactly the source's values for which p holds, in the source's
\* order, and the source's complete or error unchanged; over of(v1..vn) all
\* of it by the time subscribe returns.
C6_FilterKeepsMatchingInOrder ==
  \A s \in SubIds :
    LET nd == nodes[subs[s].node] IN
    (nd.kind = "filter" /\ Quiescent(s)) =>
      /\ log[s] = SelectSeq(CallsOf(nd.src),
                            LAMBDA c : c.t = "next" => predicate(nd.f, c.v))
      /\ nodes[nd.src].kind = "of" =>
           log[s] = Nexts(SelectSeq(nodes[nd.src].args,
                                    LAMBDA v : predicate(nd.f, v)))
                    \o <<EvComplete>>

\* C6's case: filter over of(v1, v2) where the predicate holds of one value
\* and not of the other.
C6_Witness ==
  \E s \in SubIds :
    LET nd == nodes[subs[s].node] IN
    /\ nd.kind = "filter"
    /\ nodes[nd.src].kind = "of"
    /\ Len(nodes[nd.src].args) = 2
    /\ Count(log[s], "next") = 1
    /\ Count(log[s], "complete") = 1

\* ---------------------------------------------------------------- C7
\* C7: a subscriber to map(f) receives, once the source's handlers have run,
\* f of each of the source's values in order, as many pushes as the source
\* made, and the source's complete or error unchanged; over of(v1..vn) all
\* of it by the time subscribe returns.
C7_MapTransformsEachValue ==
  \A s \in SubIds :
    LET nd == nodes[subs[s].node]
        src == CallsOf(nd.src)
    IN (nd.kind = "map" /\ Quiescent(s)) =>
         /\ Len(log[s]) = Len(src)
         /\ \A i \in 1..Len(src) :
              log[s][i] = IF src[i].t = "next"
                          THEN EvNext(transform(nd.f, src[i].v))
                          ELSE src[i]
         /\ nodes[nd.src].kind = "of" =>
              /\ Count(log[s], "next") = Len(nodes[nd.src].args)
              /\ log[s][Len(log[s])] = EvComplete

\* C7's case: map over of(v1, v2) with v1 # v2, the transform changing both.
C7_Witness ==
  \E s \in SubIds :
    LET nd == nodes[subs[s].node] IN
    /\ nd.kind = "map"
    /\ nodes[nd.src].kind = "of"
    /\ nodes[nd.src].args = <<Num(1), Num(2)>>
    /\ nd.f = "square"
    /\ log[s] = <<EvNext(Num(1)), EvNext(Num(4)), EvComplete>>

\* ---------------------------------------------------------------- C8
\* A producer execution without the observer chain it pushes to.
Closure(act) == [act EXCEPT !.obs = <<>>]

\* C8: subscribing an observer to from(S) does what subscribing it to S
\* does. In the step where subscribe is called on from(S), the closures
\* changed, the callbacks made, the exception thrown and the teardown
\* returned are those of S.subscribe called with that observer in the same
\* state; and once the handlers of an undisturbed subscription have run, the
\* subscriber has received the calls S makes, as far as its observer has
\* the members.
C8_FromObservableIsTransparent ==
  /\ [][(Len(subs') = Len(subs) + 1 /\ nodes[subs'[Len(subs')].node].kind = "from")
        => LET s == Len(subs')
               m == subscribe(nodes[subs'[s].node].o.subscribe, subs'[s].o,
                              <<UserFrame(s)>>,
                              Machine(nodes, acts, Append(log, <<>>)))
           IN /\ nodes' = m.nodes
              /\ log' = m.log
              /\ subs'[s].threw = m.thrown
              /\ subs'[s].ret = (IF Throwing(m) THEN noop ELSE m.ret)
              /\ Len(acts') = Len(m.acts)
              /\ \A a \in 1..Len(acts') : Closure(acts'[a]) = Closure(m.acts[a])]_vars
  /\ [](\A s \in SubIds :
          (KindOf(s) = "from" /\ Quiescent(s) /\ ~subs[s].torn) =>
            log[s] = Visible(subs[s].o, CallsOf(subs[s].node)))

\* C8's case: from over fromPromise subscribed with a function and no error
\* callback: the teardown is fromPromise's, and the rejection of the promise
\* reaches no callback; and the same source wrapped twice, fulfilled or
\* rejected, has delivered through both layers.
C8_Witness ==
  \E s, t \in SubIds :
    /\ KindOf(s) = "from" /\ KindOf(t) = "from"
    /\ nodes[nodes[subs[s].node].o.subscribe].kind = "fromPromise"
    /\ nodes[nodes[subs[t].node].o.subscribe].kind = "from"
    /\ subs[s].ret.k = "fromPromise" /\ subs[t].ret.k = "fromPromise"
    /\ subs[s].o = Observer("function", {"complete"})
    /\ subs[t].o = FullObserver
    /\ Quiescent(s) /\ Quiescent(t)
    /\ log[s] = <<>>
    /\ Len(log[t]) = 1

\* ---------------------------------------------------------------- C9
\* C9: subscribing to from(source), source an iterable or an array with
\* elements e1..en and no subscribe, delivers next(e1), ..., next(en) and
\* then complete, throws nothing and returns the no-op teardown.
C9_FromDrainsIterablesAndArrays ==
  \A s \in SubIds :
    KindOf(s) \in {"fromIterable", "fromArray"} =>
      /\ subs[s].threw = NoThrow
      /\ log[s] = Nexts(nodes[subs[s].node].o.elems) \o <<EvComplete>>
      /\ subs[s].ret = noop

\* ---------------------------------------------------------------- C10
\* An observable built from arguments its constructor must refuse.
Malformed(nd) ==
  \/ /\ nd.kind \in {"from", "fromIterable", "fromArray"}
     /\ nd.o.subscribe = 0 /\ ~nd.o.iterator /\ ~nd.o.array
  \/ /\ nd.kind = "concat"
     /\ \E i \in 1..Len(nd.totalObs) : nd.totalObs[i] = 0

\* C10: from and concat validate their arguments when they are called: no
\* observable is ever built from an invalid argument (so nothing is left to
\* fail at subscribe time or to be pushed as an error), and the call that
\* throws throws a TypeError and neither builds an observable nor subscribes
\* a source nor invokes an observer callback.
C10_ValidationAtConstruction ==
  /\ [](/\ \A n \in NodeIds : ~Malformed(nodes[n])
        /\ \A op \in DOMAIN lastThrow : lastThrow[op] \in {NoThrow, TypeError})
  /\ [][lastThrow' # lastThrow =>
          /\ \E op \in DOMAIN lastThrow : lastThrow'[op] = TypeError
          /\ UNCHANGED <<nodes, acts, subs, log>>]_vars

\* C10's case: from and concat have both thrown, with observables built and
\* subscribed around the calls.
C10_Witness ==
  /\ lastThrow["from"] = TypeError
  /\ lastThrow["concat"] = TypeError
  /\ Len(nodes) >= 1
  /\ Len(subs) >= 1

\* ---------------------------------------------------------------- C11
\* The number of times the event name has fired on elem.
Fired(elem, eventName) ==
  Len(SelectSeq(fired, LAMBDA e : e.elem = elem /\ e.name = eventName))

\* Nothing is delivered after the teardown was invoked.
SilentAfterTeardown(calls) ==
  \A i, j \in 1..Len(calls) :
    (calls[i] = EvTeardown /\ j > i) => calls[j].t \notin Members

\* C11: a fromEvent subscription receives nothing but the events of its
\* name fired on its target (none before the first firing, at most one per
\* firing); and once its teardown has been invoked, the listener added at
\* subscribe time is in the target's list no longer, whatever the options
\* it was added with, and no later firing is delivered.
C11_FromEventTeardownRemovesListener ==
  \A s \in SubIds :
    KindOf(s) = "fromEvent" =>
      LET nd == nodes[subs[s].node] IN
      /\ \A i \in 1..Len(log[s]) :
           log[s][i] \in {EvNext(Event(nd.eventName)), EvTeardown}
      /\ Count(log[s], "next") <= Fired(nd.elem, nd.eventName)
      /\ subs[s].torn =>
           /\ ~acts[TopAct(s)].listener.on
           /\ SilentAfterTeardown(log[s])

\* ---------------------------------------------------------------- C12
\* C12: a fromPromise(p) subscription that is never torn down has received
\* nothing while p is pending; once p is fulfilled with d it receives
\* next(d) and then complete, once each, and never an error; once p is
\* rejected with e it receives error(e) once and neither next nor complete.
C12_FromPromiseDeliversSettlement ==
  \A s \in SubIds :
    (KindOf(s) = "fromPromise" /\ ~subs[s].torn) =>
      LET p == promises[nodes[subs[s].node].p]
          expected == IF p.state = "fulfilled" THEN <<EvNext(p.v), EvComplete>>
                      ELSE IF p.state = "rejected" THEN <<EvError(p.v)>>
                      ELSE <<>>
      IN /\ IsPrefix(log[s], expected)
         /\ Quiescent(s) => log[s] = expected

\* ---------------------------------------------------------------- C13
\* C13: a fromPromise subscription whose teardown is invoked before a
\* handler of p has delivered anything to it never receives next, complete
\* or error, however p settles; and a subscription to the same observable
\* that is not torn down still receives its delivery.
C13_TornDownPromiseIsSilent ==
  \A s \in SubIds :
    (KindOf(s) = "fromPromise" /\ log[s] # <<>> /\ log[s][1] = EvTeardown) =>
      /\ log[s] = <<EvTeardown>>
      /\ \A u \in SubIds :
           (subs[u].node = subs[s].node /\ ~subs[u].torn /\ Quiescent(u)
              /\ subs[u].o = FullObserver) =>
             log[u] = CallsOf(subs[u].node)

\* C13's case: two subscriptions to one fromPromise observable, the first
\* torn down while p was pending; p is fulfilled and all handlers have run.
C13_Witness ==
  \E s, u \in SubIds :
    /\ KindOf(s) = "fromPromise"
    /\ s < u
    /\ subs[u].node = subs[s].node
    /\ subs[s].o = FullObserver /\ subs[u].o = FullObserver
    /\ log[s] = <<EvTeardown>>
    /\ Quiescent(s) /\ Quiescent(u)
    /\ promises[nodes[subs[s].node].p].state = "fulfilled"
    /\ Len(log[u]) = 2

\* ---------------------------------------------------------------- C14
\* C14: forEach(cb) calls cb once per value the source pushes, in push
\* order (with a cb that returns, the calls made so far are the source's so
\* far, and all of them once the source's handlers have run); the promise
\* is fulfilled only after the source's complete, all cb calls made;
\* it is rejected when the source signals error; and resolve and reject
\* are never both called.
C14_ForEachCallsBackThenSettles ==
  \A s \in SubIds :
    subs[s].o.type = "forEach" =>
      LET source == CallsOf(subs[s].node)
          state == PromiseState(log[s])
      IN /\ subs[s].o.does = "" =>
              /\ IsPrefix(log[s], source)
              /\ Quiescent(s) => log[s] = source
         /\ state = "fulfilled" =>
              /\ source # <<>> /\ source[Len(source)] = EvComplete
              /\ log[s] = source
         /\ (Quiescent(s) /\ source # <<>> /\ source[Len(source)].t = "error") =>
              state = "rejected"
         /\ Count(log[s], "complete") + Count(log[s], "error") <= 1
         /\ subs[s].threw = NoThrow

\* C14's case: forEach over of(v1, v2) (or a map of it) has called cb twice
\* and resolved, and forEach over a rejected promise has rejected.
C14_Witness ==
  \E s, u \in SubIds :
    /\ subs[s].o.type = "forEach" /\ subs[u].o.type = "forEach"
    /\ Count(log[s], "next") = 2
    /\ PromiseState(log[s]) = "fulfilled"
    /\ Count(log[u], "next") = 0
    /\ PromiseState(log[u]) = "rejected"
    /\ subs[u].o.does = ""

\* ---------------------------------------------------------------- C15
\* C15: subscribe fails for no shape of its first argument: a function,
\* null or nothing is the next callback (no callback when null or absent)
\* with the error and complete callbacks beside it, an object lends its
\* members, and what is missing is a no-op; subscribe throws nothing and
\* returns the teardown the producer returned.
C15_SubscribeAcceptsEveryShape ==
  \A s \in SubIds :
    KindOf(s) \in {"of", "fromPromise"} =>
      /\ subs[s].threw = NoThrow
      /\ IsPrefix(log[s], Visible(subs[s].o, CallsOf(subs[s].node)))
      /\ Quiescent(s) => log[s] = Visible(subs[s].o, CallsOf(subs[s].node))
      /\ KindOf(s) = "of" => subs[s].ret = noop
      /\ KindOf(s) = "fromPromise" =>
           /\ subs[s].ret.k = "fromPromise"
           /\ acts[subs[s].ret.act].owner = s

\* ---------------------------------------------------------------- C16
\* C16: a step that constructs an observable (of, from, fromEvent,
\* fromPromise, filter, map, reduce, concat) runs no producer: it starts no
\* producer execution, adds no listener and no promise continuation, calls
\* no callback and touches no other observable's closure. Only a subscribe
\* or forEach call has such effects, and a call on a fromEvent or
\* fromPromise observable adds one listener or one continuation.
C16_ConstructionIsLazy ==
  /\ [][Len(nodes') > Len(nodes) =>
          /\ acts' = acts
          /\ subs' = subs
          /\ log' = log
          /\ SubSeq(nodes', 1, Len(nodes)) = nodes]_vars
  /\ [][(acts' # acts \/ log' # log) =>
          /\ Len(subs') = Len(subs) + 1
          /\ nodes[subs'[Len(subs')].node].kind \in {"fromEvent", "fromPromise"} =>
               /\ Len(acts') = Len(acts) + 1
               /\ acts'[Len(acts')].node = subs'[Len(subs')].node
               /\ SubSeq(acts', 1, Len(acts)) = acts]_vars
  /\ [](subs = <<>> => acts = <<>> /\ log = <<>>)

\* C16's case: observables of every asynchronous kind and a derived one
\* built, one subscribe call made on the fromEvent observable, which has
\* added the one listener there is.
C16_Witness ==
  /\ Len(nodes) = 3
  /\ \E n \in NodeIds : nodes[n].kind = "fromPromise"
  /\ \E n \in NodeIds : nodes[n].kind \in {"filter", "map", "reduce", "concat"}
  /\ Len(subs) = 1
  /\ KindOf(1) = "fromEvent"
  /\ Len(acts) = 1
  /\ acts[1].listener.on

\* ---------------------------------------------------------------- C17
\* A producer execution of an open-ended source that can deliver no more:
\* its promise handlers have run or its flag is set, its listener is gone.
Released(a) ==
  /\ acts[a].kind = "fromPromise" =>
       acts[a].stage = "done" \/ acts[a].unSubscribed
  /\ acts[a].kind = "fromEvent" => ~acts[a].listener.on

\* C17: once the teardown of a concat subscription has been invoked, the
\* source that was active is released, whether it is the first source or a
\* later one reached after the earlier ones completed synchronously: the
\* sources subscribed for this subscription can deliver no more, and
\* nothing is delivered to the observer after the teardown.
C17_ConcatTeardownReleasesActiveSource ==
  \A s \in SubIds :
    (KindOf(s) = "concat" /\ subs[s].torn) =>
      /\ \A a \in ActIds : acts[a].owner = s => Released(a)
      /\ SilentAfterTeardown(log[s])

\* ---------------------------------------------------------------- C18
\* C18: a subscriber to reduce(f), no initial value given, over a source
\* that completes without a value receives no next, not even
\* next(undefined), and complete once.
C18_ReduceOfNothingOnlyCompletes ==
  \A s \in SubIds :
    LET nd == nodes[subs[s].node] IN
    (ReducesOf(subs[s].node) /\ nodes[nd.src].args = <<>>
       /\ nd.initVal = Undefined) =>
      log[s] = <<EvComplete>>

\* ---------------------------------------------------------------- C19
\* C19: an exception a predicate, transform or combiner throws is never
\* delivered to an observer's error callback, whatever the source is (of,
\* fromEvent, fromPromise); over a synchronous source it is thrown out of
\* subscribe, with nothing delivered by the throwing push.
C19_CallbackExceptionsAreNotCaught ==
  \A s \in SubIds :
    /\ \A i \in 1..Len(log[s]) : log[s][i] # EvError(Boom)
    /\ LET nd == nodes[subs[s].node] IN
       (nd.kind \in {"filter", "map"} /\ Throws(nd.f) /\ nodes[nd.src].kind = "of") =>
         /\ subs[s].threw = Boom
         /\ log[s] = <<>>

\* ---------------------------------------------------------------- C20
\* C20: for a subscription to fromPromise or fromEvent, directly or through
\* filter and map, nothing (no next, error or complete) is delivered to
\* the observer after its teardown was invoked, whether it was invoked
\* before the first delivery, between deliveries, or from inside the
\* observer's next callback.
C20_NothingAfterTeardown ==
  \A s \in SubIds : SilentAfterTeardown(log[s])

====
